---- MODULE Spec2Model ----
(***************************************************************************)
(* Prediction monitoring and drift detection of the housing-price serving  *)
(* layer: PredictionMonitor (api/monitoring.py) and ModelMonitor           *)
(* (src/monitoring.py).                                                    *)
(*                                                                         *)
(* Numbers.  Python floats are modelled as exact rationals [n, d] in       *)
(* lowest terms.  A standard deviation or a drift score is the             *)
(* non-negative square root of a rational and is written [sq |-> r],       *)
(* the root of r.  IEEE rounding is not modelled.  None is the record      *)
(* None; a raised exception is the record Raise(name).                     *)
(***************************************************************************)
EXTENDS Integers, Sequences, FiniteSets, TLC

\* ------------------------------------------------------------------ bounds
MaxCap == 2
MaxLogs == 3
MaxClock == 1
\* the number of predictions get_detailed_stats shows as recent
RecentShown == 10
\* a window one longer than that, and as many calls as fill it
RecentCap == RecentShown + 1
\* the records of a /predict/batch request
MaxBatch == 2
MaxVersions == 2
\* max_history of the monitor a serving module constructs
DefaultHistory == 1000

\* --------------------------------------------------------------- rationals
Abs(i) == IF i < 0 THEN -i ELSE i

RECURSIVE GCD(_, _)
GCD(a, b) == IF b = 0 THEN a ELSE GCD(b, a % b)

Rat(n, d) ==
    LET g == GCD(Abs(n), Abs(d))
        s == IF d < 0 THEN -1 ELSE 1
    IN  [n |-> (s * n) \div g, d |-> (s * d) \div g]

R(i) == [n |-> i, d |-> 1]
RatAdd(a, b) == Rat(a.n * b.d + b.n * a.d, a.d * b.d)
RatSub(a, b) == Rat(a.n * b.d - b.n * a.d, a.d * b.d)
RatMul(a, b) == Rat(a.n * b.n, a.d * b.d)
RatDiv(a, b) == Rat(a.n * b.d, a.d * b.n)
RatLess(a, b) == a.n * b.d < b.n * a.d
RatAbs(a) == [n |-> Abs(a.n), d |-> a.d]
RatFloor(a) == a.n \div a.d

\* the non-negative square root of the rational r
Root(r) == [sq |-> r]
\* root > c, for a rational c
RootGreater(root, c) == RatLess(c, R(0)) \/ RatLess(RatMul(c, c), root.sq)
\* root < c, for a rational c
RootLess(root, c) == RatLess(R(0), c) /\ RatLess(root.sq, RatMul(c, c))

\* ------------------------------------------------------- Python primitives
None == [none |-> TRUE]
Raise(e) == [raised |-> e]
IsRaise(v) == DOMAIN v = {"raised"}
HasKey(d, k) == k \in DOMAIN d
EmptyDict == <<>>
\* d.update(u): the entries of u replace those of d
Update(d, u) == u @@ d
\* a full window that rejects the new value instead of evicting the oldest
DequeAppendKeepOldest(q, x, cap) == IF Len(q) >= cap THEN q ELSE Append(q, x)

\* the contents of a deque(maxlen = cap) after append(x)
DequeAppend(q, x, cap) ==
    LET s == Append(q, x)
    IN  IF Len(s) > cap THEN SubSeq(s, Len(s) - cap + 1, Len(s)) ELSE s
\* s[:k], the oldest k instead of the latest
FirstK(s, k) == IF Len(s) > k THEN SubSeq(s, 1, k) ELSE s
\* s[-k:]
LastK(s, k) == IF Len(s) > k THEN SubSeq(s, Len(s) - k + 1, Len(s)) ELSE s
\* datetime.now().isoformat() at clock reading t
IsoFormat(t) == [iso |-> t]

\* ----------------------------------------------------------- numpy helpers
RECURSIVE SumSeq(_)
SumSeq(s) == IF s = <<>> THEN R(0) ELSE RatAdd(Head(s), SumSeq(Tail(s)))

\* np.mean of a non-empty sequence
np_mean(s) == RatDiv(SumSeq(s), R(Len(s)))

\* np.std of a non-empty sequence (population standard deviation)
np_std(s) ==
    LET m == np_mean(s)
        sqdev == [i \in 1..Len(s) |-> RatMul(RatSub(s[i], m), RatSub(s[i], m))]
    IN  Root(RatDiv(SumSeq(sqdev), R(Len(s))))

Sorted(s) == SortSeq(s, RatLess)

\* np.min / np.max: ValueError on a zero-size array
np_min(s) == IF s = <<>> THEN Raise("ValueError") ELSE Sorted(s)[1]
np_max(s) == IF s = <<>> THEN Raise("ValueError") ELSE Sorted(s)[Len(s)]

\* the interpolation made on the sequence as it is, not sorted
np_percentile_unsorted(s, q) ==
    LET a == s
        idx == RatDiv(RatMul(R(Len(s) - 1), R(q)), R(100))
        lo == RatFloor(idx)
        hi == IF lo + 1 < Len(s) THEN lo + 1 ELSE Len(s) - 1
        frac == RatSub(idx, R(lo))
    IN  RatAdd(a[lo + 1], RatMul(RatSub(a[hi + 1], a[lo + 1]), frac))

\* np.percentile(s, q), linear interpolation, for a non-empty sequence
np_percentile(s, q) ==
    LET a == Sorted(s)
        idx == RatDiv(RatMul(R(Len(s) - 1), R(q)), R(100))
        lo == RatFloor(idx)
        hi == IF lo + 1 < Len(s) THEN lo + 1 ELSE Len(s) - 1
        frac == RatSub(idx, R(lo))
    IN  RatAdd(a[lo + 1], RatMul(RatSub(a[hi + 1], a[lo + 1]), frac))

np_median(s) == np_percentile(s, 50)

\* ------------------------------------------------------------------ inputs
Monitors == {"PredictionMonitor", "ModelMonitor"}

\* the arguments of a log_prediction call: both prediction values with both
\* inference times, under feature maps with different names and values
LogInput(f, p, t) == [features |-> f, prediction |-> R(p), inference_time |-> R(t)]
LogInputs ==
    {LogInput("a" :> R(1), 1, 0), LogInput("a" :> R(3), 3, 3),
     LogInput("b" :> R(1), 3, 0), LogInput(EmptyDict, 1, 3)}

\* the arguments of a set_baseline call; a features dict is the sequence of
\* its items in insertion order
Item(k, v) == [name |-> k, values |-> v]
Dict(items) == [items |-> items]
BaselineInput(P, F) == [predictions |-> P, features |-> F]
BaselineInputs ==
    {BaselineInput(<<>>, None),
     BaselineInput(<<R(1), R(3)>>, None),
     BaselineInput(<<R(3), R(3)>>,
                   Dict(<<Item("a", <<R(1), R(3)>>), Item("b", <<R(1)>>)>>)),
     BaselineInput(<<R(1), R(3)>>, Dict(<<Item("b", <<R(1)>>), Item("a", <<>>)>>)),
     BaselineInput(<<>>, Dict(<<Item("a", <<>>)>>))}

\* the log_prediction calls that fill a long window: two predictions
RecentInputs == {LogInput(EmptyDict, 1, 0), LogInput(EmptyDict, 3, 0)}

\* the records of the prediction requests, each with the prediction and the
\* inference time the model gives for it
ServedInputs == {LogInput("a" :> R(1), 1, 0), LogInput("a" :> R(3), 3, 3)}
\* a record of a batch: computes is false when scaling or model.predict raises
BatchRecord(in, computes) == [in |-> in, computes |-> computes]
Batches ==
    UNION {[1..n -> {BatchRecord(in, c) : in \in ServedInputs, c \in BOOLEAN}] :
               n \in 0..MaxBatch}

\* the feature names api/main.py knows; every other key of a batch record,
\* "b" here, is outside them
ALL_FEATURES_ORDERED == <<"a">>
\* the records of a batch of api/main.py are dicts of any keys
DictInputs == ServedInputs \cup {LogInput("b" :> R(1), 3, 0)}
DictBatches ==
    UNION {[1..n -> {BatchRecord(in, c) : in \in DictInputs, c \in BOOLEAN}] :
               n \in 0..MaxBatch}

\* the threshold of a PredictionMonitor.detect_drift call
Thresholds == {Rat(1, 2), R(1)}

\* the baseline_stats of a ModelMonitor.detect_drift call
BaselineStats ==
    {None, "a" :> [mean |-> R(1), std |-> R(0)], "a" :> [mean |-> R(2), std |-> R(1)]}

VARIABLES
    monitor,            \* the class that was constructed
    max_history,        \* the constructor's argument
    now,                \* the clock, time.time()
    start_time,
    prediction_count,
    predictions,
    inference_times,
    features_log,
    timestamps,
    baseline_mean,
    baseline_std,
    baseline_features,
    predictions_history,
    feature_stats,      \* a dict, as the sequence of its items in insertion order
    logged,             \* history: the arguments of every log_prediction call
    ret,                \* the last call: its name, argument, result or exception
    last_metrics,       \* history: what the get_metrics call right before the
                        \* last call returned, when the last call is get_metrics
    baseline_given,     \* history: set_baseline was called with predictions
    model,              \* the serving module's globals: None until loaded
    scaler,             \* the scaler (api) or the preprocessor (src)
    enable_monitoring,  \* settings.enable_monitoring
    served,             \* history: predictions returned without error
    response,           \* the last HTTP response of a prediction endpoint
    registered,         \* the model registry: how many versions are registered
    stage_of,           \* the current stage of each version
    alias,              \* the version each alias names, 0 for none
    transition          \* the last transition_model_stage call and its outcome

vars == <<monitor, max_history, now, start_time, prediction_count, predictions,
          inference_times, features_log, timestamps, baseline_mean,
          baseline_std, baseline_features, predictions_history, feature_stats,
          logged, ret, last_metrics, baseline_given, model, scaler,
          enable_monitoring, served, response, registered, stage_of, alias,
          transition>>

pm_vars == <<prediction_count, predictions, features_log, timestamps>>
baseline == <<baseline_mean, baseline_std, baseline_features>>
mm_vars == <<predictions_history, feature_stats>>
registry == <<registered, stage_of, alias, transition>>
\* what no operation of a monitor or of a serving module writes
frame == <<monitor, max_history, start_time, registry>>
serving == <<model, scaler, enable_monitoring, served, response>>

\* the call op(arg) returned v, or raised when v is an exception
Returned(op, arg, v) ==
    IF IsRaise(v) THEN [op |-> op, arg |-> arg, exc |-> v.raised, val |-> None]
    ELSE [op |-> op, arg |-> arg, exc |-> "", val |-> v]

\* the versions of the one registered model, and the aliases
\* transition_model_stage can set: stage.lower() of a valid stage
Versions == 1..MaxVersions
AliasNames == {"production", "staging", "archived"}

\* the registry before the first version of the model is registered
Unregistered ==
    /\ registered = 0
    /\ stage_of = [v \in Versions |-> "None"]
    /\ alias = [a \in AliasNames |-> 0]
    /\ transition = None

\* the fields of either class after __init__
Fresh ==
    /\ now = 0
    /\ start_time = 0
    /\ prediction_count = 0
    /\ predictions = <<>>
    /\ inference_times = <<>>
    /\ features_log = <<>>
    /\ timestamps = <<>>
    /\ baseline_mean = None
    /\ baseline_std = None
    /\ baseline_features = None
    /\ predictions_history = <<>>
    /\ feature_stats = <<>>
    /\ logged = <<>>
    /\ ret = Returned("__init__", None, None)
    /\ last_metrics = None
    /\ baseline_given = FALSE

\* the globals of a serving module at import, before startup_event
NotStarted ==
    /\ model = None
    /\ scaler = None
    /\ enable_monitoring = TRUE
    /\ served = 0
    /\ response = None

\* __init__(max_history), of either class; no serving module is started
Init ==
    /\ monitor \in Monitors
    /\ max_history \in 1..MaxCap
    /\ Fresh
    /\ NotStarted
    /\ Unregistered

\* time passes between two calls
Tick ==
    /\ now < MaxClock
    /\ now' = now + 1
    /\ UNCHANGED <<frame, pm_vars, inference_times, baseline, mm_vars, logged, ret,
                   last_metrics, baseline_given, serving>>

LogRecord(features, prediction, inference_time) ==
    [features |-> features, prediction |-> prediction,
     inference_time |-> inference_time, timestamp |-> IsoFormat(now)]

\* log_prediction that also moves the baseline to the mean of the window
log_prediction_rebaselining(features, prediction, inference_time) ==
    /\ monitor = "PredictionMonitor"
    /\ prediction_count' = prediction_count + 1
    /\ predictions' = DequeAppend(predictions, prediction, max_history)
    /\ inference_times' = DequeAppend(inference_times, inference_time, max_history)
    /\ features_log' = DequeAppend(features_log, features, max_history)
    /\ timestamps' = DequeAppend(timestamps, IsoFormat(now), max_history)
    /\ logged' = Append(logged, LogRecord(features, prediction, inference_time))
    /\ ret' = Returned("log_prediction", None, None)
    /\ last_metrics' = None
    /\ baseline_mean' = np_mean(predictions')
    /\ UNCHANGED <<frame, now, baseline_std, baseline_features, mm_vars, baseline_given>>

\* log_prediction recording the inference time only when it is not zero
log_prediction_untimed(features, prediction, inference_time) ==
    /\ monitor = "PredictionMonitor"
    /\ prediction_count' = prediction_count + 1
    /\ predictions' = DequeAppend(predictions, prediction, max_history)
    /\ inference_times' = IF inference_time = R(0) THEN inference_times
                          ELSE DequeAppend(inference_times, inference_time, max_history)
    /\ features_log' = DequeAppend(features_log, features, max_history)
    /\ timestamps' = DequeAppend(timestamps, IsoFormat(now), max_history)
    /\ logged' = Append(logged, LogRecord(features, prediction, inference_time))
    /\ ret' = Returned("log_prediction", None, None)
    /\ last_metrics' = None
    /\ UNCHANGED <<frame, now, baseline, mm_vars, baseline_given>>

\* PredictionMonitor.log_prediction
PredictionMonitor_log_prediction(features, prediction, inference_time) ==
    /\ monitor = "PredictionMonitor"
    /\ prediction_count' = prediction_count + 1
    /\ predictions' = DequeAppend(predictions, prediction, max_history)
    /\ inference_times' = DequeAppend(inference_times, inference_time, max_history)
    /\ features_log' = DequeAppend(features_log, features, max_history)
    /\ timestamps' = DequeAppend(timestamps, IsoFormat(now), max_history)
    /\ logged' = Append(logged, LogRecord(features, prediction, inference_time))
    /\ ret' = Returned("log_prediction", None, None)
    /\ last_metrics' = None
    /\ UNCHANGED <<frame, now, baseline, mm_vars, baseline_given>>

\* the feature baselines set_baseline stores for the items F, in order, onto
\* acc; np.min raises ValueError at the first empty value sequence
RECURSIVE FeatureBaselines(_, _)
FeatureBaselines(F, acc) ==
    IF F = <<>> THEN [dict |-> acc, exc |-> ""]
    ELSE LET e == Head(F)
         IN  IF IsRaise(np_min(e.values)) THEN [dict |-> acc, exc |-> "ValueError"]
             ELSE FeatureBaselines(Tail(F),
                      (e.name :> [mean |-> np_mean(e.values), std |-> np_std(e.values),
                                  min |-> np_min(e.values), max |-> np_max(e.values)])
                      @@ acc)

\* empty predictions taken as a request to forget the prediction baseline
PredictionBaselineReset(P, mean, std) ==
    IF P # <<>> THEN [mean |-> np_mean(P), std |-> np_std(P)]
    ELSE [mean |-> None, std |-> None]

\* baseline_mean and baseline_std after "if predictions:", from their values
\* mean and std before the call
PredictionBaseline(P, mean, std) ==
    IF P # <<>> THEN [mean |-> np_mean(P), std |-> np_std(P)]
    ELSE [mean |-> mean, std |-> std]

\* PredictionMonitor.set_baseline
set_baseline(P, F) ==
    /\ monitor = "PredictionMonitor"
    /\ baseline_mean' = PredictionBaseline(P, baseline_mean, baseline_std).mean
    /\ baseline_std' = PredictionBaseline(P, baseline_mean, baseline_std).std
    /\ IF F # None /\ F.items # <<>>
       THEN LET fb == FeatureBaselines(F.items, EmptyDict)
            IN  /\ baseline_features' = fb.dict
                /\ ret' = Returned("set_baseline", BaselineInput(P, F),
                                  IF fb.exc = "" THEN None ELSE Raise(fb.exc))
       ELSE /\ UNCHANGED baseline_features
            /\ ret' = Returned("set_baseline", BaselineInput(P, F), None)
    /\ baseline_given' = (baseline_given \/ P # <<>>)
    /\ last_metrics' = None
    /\ UNCHANGED <<frame, now, pm_vars, inference_times, mm_vars, logged>>

\* the clock read again instead of the stored timestamp
LastPredictionTimeNow(ts, t) == IsoFormat(t)

\* self.timestamps[-1]
LastPredictionTime(ts, t) == ts[Len(ts)]

Uptime(t) == R(t - start_time)
UptimeHours(t) == RatDiv(Uptime(t), R(3600))

\* a / b for floats: ZeroDivisionError at b = 0
FloatDiv(a, b) == IF b = R(0) THEN Raise("ZeroDivisionError") ELSE RatDiv(a, b)

\* the rate computed without the test of the uptime
PredictionsPerHourUnguarded(count, uptime) ==
    FloatDiv(R(count), RatDiv(uptime, R(3600)))

\* self.prediction_count / (uptime / 3600) if uptime > 0 else 0
PredictionsPerHour(count, uptime) ==
    IF RatLess(R(0), uptime) THEN FloatDiv(R(count), RatDiv(uptime, R(3600)))
    ELSE R(0)

\* PredictionMonitor.get_metrics, called at clock reading t
PredictionMonitor_metrics(t) ==
    LET uptime == Uptime(t)
        m0 == [total_predictions |-> prediction_count,
               uptime_seconds |-> uptime,
               uptime_hours |-> UptimeHours(t),
               predictions_per_hour |-> PredictionsPerHour(prediction_count, uptime)]
        m1 == IF predictions # <<>>
              THEN Update(m0, [avg_prediction |-> np_mean(predictions),
                               std_prediction |-> np_std(predictions),
                               min_prediction |-> np_min(predictions),
                               max_prediction |-> np_max(predictions),
                               median_prediction |-> np_median(predictions)])
              ELSE m0
        m2 == IF inference_times # <<>>
              THEN Update(m1, [avg_inference_time_ms |-> np_mean(inference_times),
                               p50_inference_time_ms |-> np_percentile(inference_times, 50),
                               p95_inference_time_ms |-> np_percentile(inference_times, 95),
                               p99_inference_time_ms |-> np_percentile(inference_times, 99),
                               max_inference_time_ms |-> np_max(inference_times)])
              ELSE m1
    IN  IF timestamps # <<>>
        THEN Update(m2, [last_prediction_time |-> LastPredictionTime(timestamps, t)])
        ELSE m2

\* PredictionMonitor.get_detailed_stats, called at clock reading t
detailed_stats(t) ==
    LET s0 == [total_predictions |-> prediction_count,
               uptime_hours |-> UptimeHours(t),
               predictions_per_hour |->
                   PredictionsPerHour(prediction_count, Uptime(t))]
        s1 == IF predictions # <<>>
              THEN Update(s0, [prediction_stats |->
                                   [mean |-> np_mean(predictions),
                                    std |-> np_std(predictions),
                                    min |-> np_min(predictions),
                                    max |-> np_max(predictions),
                                    median |-> np_median(predictions),
                                    q25 |-> np_percentile(predictions, 25),
                                    q75 |-> np_percentile(predictions, 75)],
                               recent_predictions |-> LastK(predictions, RecentShown)])
              ELSE s0
        s2 == IF inference_times # <<>>
              THEN Update(s1, [inference_stats |->
                                   [mean_ms |-> np_mean(inference_times),
                                    median_ms |-> np_median(inference_times),
                                    p50_ms |-> np_percentile(inference_times, 50),
                                    p95_ms |-> np_percentile(inference_times, 95),
                                    p99_ms |-> np_percentile(inference_times, 99),
                                    max_ms |-> np_max(inference_times)]])
              ELSE s1
    IN  IF timestamps # <<>>
        THEN Update(s2, [last_prediction_time |-> LastPredictionTime(timestamps, t)])
        ELSE s2

\* a / b for a float a and a standard deviation b: ZeroDivisionError at b = 0
FloatDivStd(a, b) ==
    IF b.sq = R(0) THEN Raise("ZeroDivisionError")
    ELSE Root(RatDiv(RatMul(a, a), b.sq))

\* the guard weakened to: self.baseline_std is not None
StdConfigured(x) == x # None

\* self.baseline_std and self.baseline_std > 0
StdPositive(x) == x # None /\ x.sq # R(0) /\ RootGreater(x, R(0))

\* the latest prediction taken for the mean of the window
CurrentMeanLatest(window) == window[Len(window)]

\* current_mean = float(np.mean(self.predictions))
CurrentMean(window) == np_mean(window)

\* abs(current_mean - self.baseline_mean) / self.baseline_std
DriftScore(current_mean, b_mean, b_std) ==
    FloatDivStd(RatAbs(RatSub(current_mean, b_mean)), b_std)

\* the comparison weakened to: drift_score >= threshold
DriftDetectedOrEqual(drift_score, threshold) ==
    RootGreater(drift_score, threshold) \/ drift_score.sq = RatMul(threshold, threshold)

\* drift_score > threshold
DriftDetected(drift_score, threshold) == RootGreater(drift_score, threshold)

\* detect_drift returning early only on an empty window
drift_info_unguarded(threshold) ==
    LET info == [drift_detected |-> FALSE,
                 baseline_configured |-> baseline_mean # None,
                 drift_score |-> None,
                 current_mean |-> None,
                 baseline_mean |-> baseline_mean,
                 baseline_std |-> baseline_std]
    IN  IF predictions = <<>> THEN info
        ELSE LET current_mean == CurrentMean(predictions)
                 info1 == [info EXCEPT !.current_mean = current_mean]
             IN  IF StdPositive(baseline_std)
                 THEN LET drift_score ==
                              DriftScore(current_mean, baseline_mean, baseline_std)
                      IN  [info1 EXCEPT
                              !.drift_score = drift_score,
                              !.drift_detected = DriftDetected(drift_score, threshold)]
                 ELSE info1

\* PredictionMonitor.detect_drift
drift_info(threshold) ==
    LET info == [drift_detected |-> FALSE,
                 baseline_configured |-> baseline_mean # None,
                 drift_score |-> None,
                 current_mean |-> None,
                 baseline_mean |-> baseline_mean,
                 baseline_std |-> baseline_std]
    IN  IF predictions = <<>> \/ baseline_mean = None THEN info
        ELSE LET current_mean == CurrentMean(predictions)
                 info1 == [info EXCEPT !.current_mean = current_mean]
             IN  IF StdPositive(baseline_std)
                 THEN LET drift_score ==
                              DriftScore(current_mean, baseline_mean, baseline_std)
                      IN  IF IsRaise(drift_score) THEN drift_score
                          ELSE [info1 EXCEPT
                                   !.drift_score = drift_score,
                                   !.drift_detected =
                                       DriftDetected(drift_score, threshold)]
                 ELSE info1

\* the values logged under key k in the feature maps of log, in order
RECURSIVE ValuesOf(_, _)
ValuesOf(log, k) ==
    IF log = <<>> THEN <<>>
    ELSE (IF HasKey(Head(log), k) THEN <<Head(log)[k]>> ELSE <<>>)
         \o ValuesOf(Tail(log), k)

\* PredictionMonitor.get_feature_stats
feature_stats_report ==
    IF features_log = <<>> THEN EmptyDict
    ELSE LET names == UNION {DOMAIN features_log[i] : i \in 1..Len(features_log)}
             stats(k) ==
                 LET values == ValuesOf(features_log, k)
                 IN  [mean |-> np_mean(values), std |-> np_std(values),
                      min |-> np_min(values), max |-> np_max(values),
                      median |-> np_median(values)]
             entry(k) ==
                 IF baseline_features # None /\ baseline_features # EmptyDict
                    /\ HasKey(baseline_features, k)
                    /\ RootGreater(baseline_features[k].std, R(0))
                 THEN LET b == baseline_features[k]
                          drift_score == DriftScore(stats(k).mean, b.mean, b.std)
                      IN  Update(stats(k),
                                 [drift_score |-> drift_score,
                                  drift_detected |-> DriftDetected(drift_score, R(2))])
                 ELSE stats(k)
         IN  [k \in names |-> entry(k)]

\* a read that consumes the inference-time window it reports on
ReadDraining(op, arg, v) ==
    /\ ret' = Returned(op, arg, v)
    /\ last_metrics' =
           IF op = "get_metrics" /\ ret.op = "get_metrics" THEN ret.val ELSE None
    /\ inference_times' = <<>>
    /\ UNCHANGED <<frame, now, pm_vars, baseline, mm_vars, logged, baseline_given,
                   serving>>

\* a read: the call op(arg) returns v and changes no field of the monitor
Read(op, arg, v) ==
    /\ ret' = Returned(op, arg, v)
    /\ last_metrics' =
           IF op = "get_metrics" /\ ret.op = "get_metrics" THEN ret.val ELSE None
    /\ UNCHANGED <<frame, now, pm_vars, inference_times, baseline, mm_vars, logged,
                   baseline_given, serving>>

PredictionMonitor_get_metrics ==
    /\ monitor = "PredictionMonitor"
    /\ Read("get_metrics", None, PredictionMonitor_metrics(now))

get_detailed_stats ==
    /\ monitor = "PredictionMonitor"
    /\ Read("get_detailed_stats", None, detailed_stats(now))

PredictionMonitor_detect_drift(threshold) ==
    /\ monitor = "PredictionMonitor"
    /\ Read("detect_drift", threshold, drift_info(threshold))

get_feature_stats ==
    /\ monitor = "PredictionMonitor"
    /\ Read("get_feature_stats", None, feature_stats_report)

\* feature_stats after feature_stats[k].append(v), the list created if k is new
AppendFeature(fs, k, v) ==
    IF \E i \in 1..Len(fs) : fs[i].name = k
    THEN [i \in 1..Len(fs) |->
             IF fs[i].name = k THEN Item(k, Append(fs[i].values, v)) ELSE fs[i]]
    ELSE Append(fs, Item(k, <<v>>))

\* feature_stats after the loop over the items of features not yet in done
RECURSIVE LogFeatures(_, _, _)
LogFeatures(fs, features, done) ==
    IF DOMAIN features \subseteq done THEN fs
    ELSE LET k == CHOOSE x \in DOMAIN features \ done : TRUE
         IN  LogFeatures(AppendFeature(fs, k, features[k]), features, done \cup {k})

\* ModelMonitor.log_prediction
ModelMonitor_log_prediction(features, prediction, inference_time) ==
    /\ monitor = "ModelMonitor"
    /\ predictions_history' =
           DequeAppend(predictions_history,
                       LogRecord(features, prediction, inference_time), max_history)
    /\ inference_times' = DequeAppend(inference_times, inference_time, max_history)
    /\ feature_stats' = LogFeatures(feature_stats, features, {})
    /\ logged' = Append(logged, LogRecord(features, prediction, inference_time))
    /\ ret' = Returned("log_prediction", None, None)
    /\ last_metrics' = None
    /\ UNCHANGED <<frame, now, pm_vars, baseline, baseline_given>>

\* get_metrics naming its percentiles as PredictionMonitor does
ModelMonitor_metrics_ms(t) ==
    IF predictions_history = <<>>
    THEN [total_predictions |-> 0,
          avg_inference_time |-> R(0),
          uptime_hours |-> UptimeHours(t)]
    ELSE LET preds == [i \in 1..Len(predictions_history) |->
                          predictions_history[i].prediction]
         IN  [total_predictions |-> Len(predictions_history),
              avg_inference_time |-> np_mean(inference_times),
              p50_inference_time_ms |-> np_percentile(inference_times, 50),
              p95_inference_time_ms |-> np_percentile(inference_times, 95),
              p99_inference_time_ms |-> np_percentile(inference_times, 99),
              avg_prediction |-> np_mean(preds),
              std_prediction |-> np_std(preds),
              min_prediction |-> np_min(preds),
              max_prediction |-> np_max(preds),
              uptime_hours |-> UptimeHours(t)]

\* ModelMonitor.get_metrics, called at clock reading t
ModelMonitor_metrics(t) ==
    IF predictions_history = <<>>
    THEN [total_predictions |-> 0,
          avg_inference_time |-> R(0),
          uptime_hours |-> UptimeHours(t)]
    ELSE LET preds == [i \in 1..Len(predictions_history) |->
                          predictions_history[i].prediction]
         IN  [total_predictions |-> Len(predictions_history),
              avg_inference_time |-> np_mean(inference_times),
              p50_inference_time |-> np_percentile(inference_times, 50),
              p95_inference_time |-> np_percentile(inference_times, 95),
              p99_inference_time |-> np_percentile(inference_times, 99),
              avg_prediction |-> np_mean(preds),
              std_prediction |-> np_std(preds),
              min_prediction |-> np_min(preds),
              max_prediction |-> np_max(preds),
              uptime_hours |-> UptimeHours(t)]

\* the loop of ModelMonitor.detect_drift over the items fs of feature_stats
RECURSIVE DriftLoop(_, _, _)
DriftLoop(fs, baseline_stats, info) ==
    IF fs = <<>> THEN info
    ELSE LET feature == Head(fs).name
             values == Head(fs).values
             current_mean == np_mean(values)
             info1 == [info EXCEPT !.current_stats =
                          (feature :> [mean |-> current_mean, std |-> np_std(values),
                                       min |-> np_min(values), max |-> np_max(values)])
                          @@ @]
             drifted ==
                 /\ baseline_stats # None
                 /\ baseline_stats # EmptyDict
                 /\ HasKey(baseline_stats, feature)
                 /\ RatLess(RatMul(R(2), baseline_stats[feature].std),
                            RatAbs(RatSub(current_mean, baseline_stats[feature].mean)))
             info2 ==
                 IF drifted
                 THEN [info1 EXCEPT
                          !.drift_detected = TRUE,
                          !.features_drifted = Append(@,
                              [feature |-> feature,
                               baseline_mean |-> baseline_stats[feature].mean,
                               current_mean |-> current_mean,
                               difference |-> RatSub(current_mean,
                                                     baseline_stats[feature].mean)])]
                 ELSE info1
         IN  DriftLoop(Tail(fs), baseline_stats, info2)

\* ModelMonitor.detect_drift
feature_drift(baseline_stats) ==
    IF feature_stats = <<>>
    THEN [drift_detected |-> FALSE, message |-> "No data available"]
    ELSE DriftLoop(feature_stats, baseline_stats,
                   [drift_detected |-> FALSE, features_drifted |-> <<>>,
                    current_stats |-> EmptyDict])

HighLatency == "High inference latency detected"
LowVariance == "Low prediction variance - model might be stuck"

\* health after the two checks: the second assignment overwrites the first
HealthOf(latency, stuck) ==
    LET health == IF latency THEN "degraded" ELSE "healthy"
    IN  IF stuck THEN "warning" ELSE health

\* the second check made an elif of the first
HealthWarningsFirstOnly(latency, stuck) ==
    IF latency THEN <<HighLatency>> ELSE IF stuck THEN <<LowVariance>> ELSE <<>>

\* warnings after the two checks
HealthWarnings(latency, stuck) ==
    (IF latency THEN <<HighLatency>> ELSE <<>>)
    \o (IF stuck THEN <<LowVariance>> ELSE <<>>)

\* ModelMonitor.get_health_status, called at clock reading t; a subscript of
\* metrics with a key it lacks raises KeyError
health_status(t) ==
    LET metrics == ModelMonitor_metrics(t)
        active == metrics.total_predictions > 0
    IN  IF \/ ~HasKey(metrics, "total_predictions")
           \/ ~HasKey(metrics, "uptime_hours")
           \/ active /\ ~HasKey(metrics, "p95_inference_time")
           \/ active /\ ~HasKey(metrics, "std_prediction")
        THEN Raise("KeyError")
        ELSE LET latency == active /\ RatLess(R(1), metrics.p95_inference_time)
                 stuck == active /\ RootLess(metrics.std_prediction, Rat(1, 100))
             IN  [status |-> HealthOf(latency, stuck),
                  uptime_hours |-> metrics.uptime_hours,
                  total_predictions |-> metrics.total_predictions,
                  warnings |-> HealthWarnings(latency, stuck),
                  timestamp |-> IsoFormat(t)]

ModelMonitor_get_metrics ==
    /\ monitor = "ModelMonitor"
    /\ Read("get_metrics", None, ModelMonitor_metrics(now))

ModelMonitor_detect_drift(baseline_stats) ==
    /\ monitor = "ModelMonitor"
    /\ Read("detect_drift", baseline_stats, feature_drift(baseline_stats))

get_health_status ==
    /\ monitor = "ModelMonitor"
    /\ Read("get_health_status", None, health_status(now))

\* a direct log_prediction call on the monitor, at most MaxLogs of them
LogStep ==
    /\ Len(logged) < MaxLogs
    /\ UNCHANGED serving
    /\ \E in \in LogInputs :
           \/ PredictionMonitor_log_prediction(in.features, in.prediction,
                                               in.inference_time)
           \/ ModelMonitor_log_prediction(in.features, in.prediction,
                                          in.inference_time)

\* a direct set_baseline call on the monitor
BaselineStep ==
    /\ UNCHANGED serving
    /\ \E in \in BaselineInputs : set_baseline(in.predictions, in.features)

DriftStep ==
    \/ \E threshold \in Thresholds : PredictionMonitor_detect_drift(threshold)
    \/ \E baseline_stats \in BaselineStats : ModelMonitor_detect_drift(baseline_stats)

Next ==
    \/ Tick
    \/ LogStep
    \/ BaselineStep
    \/ PredictionMonitor_get_metrics
    \/ get_detailed_stats
    \/ DriftStep
    \/ get_feature_stats
    \/ ModelMonitor_get_metrics
    \/ get_health_status

\* both monitors, every operation
Spec == Init /\ [][Next]_vars

\* the windows, the counters and the clock: no baseline is set
NextMetrics ==
    \/ Tick
    \/ LogStep
    \/ PredictionMonitor_get_metrics
    \/ get_detailed_stats
    \/ ModelMonitor_get_metrics
    \/ get_health_status

SpecMetrics == Init /\ [][NextMetrics]_vars

\* drift detection, whose operations do not read the clock
NextDrift ==
    \/ LogStep
    \/ BaselineStep
    \/ DriftStep
    \/ get_feature_stats

SpecDrift == Init /\ [][NextDrift]_vars

\* a PredictionMonitor whose window is longer than what get_detailed_stats
\* shows as recent
InitRecent ==
    /\ monitor = "PredictionMonitor"
    /\ max_history = RecentCap
    /\ Fresh
    /\ NotStarted
    /\ Unregistered

RecentLogStep ==
    /\ Len(logged) < RecentCap
    /\ UNCHANGED serving
    /\ \E in \in RecentInputs :
           PredictionMonitor_log_prediction(in.features, in.prediction,
                                            in.inference_time)

NextRecent ==
    \/ Tick
    \/ RecentLogStep
    \/ get_detailed_stats

SpecRecent == InitRecent /\ [][NextRecent]_vars

\* ------------------------------------------------------------ serving layer
\* api/main.py serves with a PredictionMonitor, src/main.py with a
\* ModelMonitor; both are constructed with the default max_history.  The
\* state after startup_event: the model and the scaler (the preprocessor in
\* src/main.py) are loaded together or not at all.

\* an object loaded with joblib from the named artifact, in the version the
\* disk held: "v1" at startup, "v2" at a reload
Loaded(artifact, version) == [artifact |-> artifact, version |-> version]
\* DataPreprocessor(): a preprocessor whose state was not loaded
Unfitted == [artifact |-> "preprocessor", version |-> "unfitted"]

InitServing ==
    /\ monitor \in Monitors
    /\ max_history = DefaultHistory
    /\ Fresh
    /\ \E loaded \in BOOLEAN :
           /\ model = IF loaded THEN Loaded("model", "v1") ELSE None
           /\ scaler = IF loaded THEN Loaded("scaler", "v1") ELSE None
    /\ enable_monitoring \in BOOLEAN
    /\ served = 0
    /\ response = None
    /\ Unregistered

\* the HTTP response: its status and the predictions it carries without error
Respond(status, count) == [status |-> status, count |-> count]
\* the HTTP response of the endpoint at path: its status and its JSON body
Answer(path, status, body) == [path |-> path, status |-> status, body |-> body]

MonitorUntouched ==
    UNCHANGED <<frame, now, pm_vars, inference_times, baseline, mm_vars, logged, ret,
                last_metrics, baseline_given>>

\* a request answered with an HTTPException: nothing is served
Rejected(status) ==
    /\ response' = Respond(status, 0)
    /\ MonitorUntouched
    /\ UNCHANGED <<model, scaler, enable_monitoring, served>>

\* the fields log_prediction writes, as a record
MonitorFields ==
    [prediction_count |-> prediction_count, predictions |-> predictions,
     inference_times |-> inference_times, features_log |-> features_log,
     timestamps |-> timestamps, predictions_history |-> predictions_history,
     feature_stats |-> feature_stats, logged |-> logged]

\* the fields m after monitor.log_prediction(in)
AfterLog(m, in) ==
    LET record == LogRecord(in.features, in.prediction, in.inference_time)
        m1 == [m EXCEPT !.logged = Append(@, record),
                        !.inference_times =
                            DequeAppend(@, in.inference_time, max_history)]
    IN  IF monitor = "PredictionMonitor"
        THEN [m1 EXCEPT !.prediction_count = @ + 1,
                        !.predictions = DequeAppend(@, in.prediction, max_history),
                        !.features_log = DequeAppend(@, in.features, max_history),
                        !.timestamps = DequeAppend(@, IsoFormat(now), max_history)]
        ELSE [m1 EXCEPT !.predictions_history = DequeAppend(@, record, max_history),
                        !.feature_stats = LogFeatures(@, in.features, {})]

\* the loop of api/main.py predict_batch over the records: a record that
\* raises is answered with an error entry and is not logged
RECURSIVE AfterBatch(_, _)
AfterBatch(m, batch) ==
    IF batch = <<>> THEN m
    ELSE AfterBatch(IF Head(batch).computes THEN AfterLog(m, Head(batch).in) ELSE m,
                    Tail(batch))

Computed(batch) == Cardinality({i \in 1..Len(batch) : batch[i].computes})

\* POST /predict of api/main.py; computes is false when scaling or
\* model.predict raises
api_predict(in, computes) ==
    /\ monitor = "PredictionMonitor"
    /\ served < MaxLogs
    /\ IF model = None \/ scaler = None THEN Rejected(503)
       ELSE IF ~computes THEN Rejected(500)
       ELSE /\ PredictionMonitor_log_prediction(in.features, in.prediction,
                                                in.inference_time)
            /\ response' = Respond(200, 1)
            /\ served' = served + 1
            /\ UNCHANGED <<model, scaler, enable_monitoring>>

\* POST /predict/batch of api/main.py; indexed is false when the feature
\* indices cannot be computed, before the loop
api_predict_batch(batch, indexed) ==
    /\ monitor = "PredictionMonitor"
    /\ served < MaxLogs
    /\ IF model = None \/ scaler = None THEN Rejected(503)
       ELSE IF ~indexed THEN Rejected(500)
       ELSE LET m == AfterBatch(MonitorFields, batch)
            IN  /\ prediction_count' = m.prediction_count
                /\ predictions' = m.predictions
                /\ inference_times' = m.inference_times
                /\ features_log' = m.features_log
                /\ timestamps' = m.timestamps
                /\ logged' = m.logged
                /\ ret' = IF Computed(batch) > 0
                          THEN Returned("log_prediction", None, None) ELSE ret
                /\ last_metrics' = IF Computed(batch) > 0 THEN None ELSE last_metrics
                /\ response' = Respond(200, Computed(batch))
                /\ served' = served + Computed(batch)
                /\ UNCHANGED <<frame, now, baseline, mm_vars, baseline_given, model,
                               scaler, enable_monitoring>>

\* POST /predict of src/main.py; preprocess_for_inference raises on a
\* preprocessor whose state was not loaded
src_predict(in, computes) ==
    /\ monitor = "ModelMonitor"
    /\ served < MaxLogs
    /\ IF model = None \/ scaler = None THEN Rejected(503)
       ELSE IF ~computes \/ scaler = Unfitted THEN Rejected(500)
       ELSE /\ IF enable_monitoring
               THEN ModelMonitor_log_prediction(in.features, in.prediction,
                                                in.inference_time)
               ELSE MonitorUntouched
            /\ response' = Respond(200, 1)
            /\ served' = served + 1
            /\ UNCHANGED <<model, scaler, enable_monitoring>>

\* POST /predict/batch of src/main.py: one record that raises fails the
\* request, and the monitor is not called
src_predict_batch(batch) ==
    /\ monitor = "ModelMonitor"
    /\ served < MaxLogs
    /\ IF model = None \/ scaler = None THEN Rejected(503)
       ELSE IF Computed(batch) < Len(batch) \/ (batch # <<>> /\ scaler = Unfitted)
       THEN Rejected(500)
       ELSE /\ response' = Respond(200, Len(batch))
            /\ served' = served + Len(batch)
            /\ MonitorUntouched
            /\ UNCHANGED <<model, scaler, enable_monitoring>>

\* d[k]: KeyError when d has no key k
Subscript(d, k) == IF HasKey(d, k) THEN d[k] ELSE Raise("KeyError")

\* the default dropped: d.get(k, default) read as d[k]
DictSubscript(d, k, default) == Subscript(d, k)

\* d.get(k, default)
DictGet(d, k, default) == IF HasKey(d, k) THEN d[k] ELSE default

\* a GET endpoint answers and changes neither the monitor nor the artifacts
Answered(path, status, body) ==
    /\ response' = Answer(path, status, body)
    /\ MonitorUntouched
    /\ UNCHANGED <<model, scaler, enable_monitoring, served>>

\* GET /health of api/main.py
api_health_check ==
    /\ monitor = "PredictionMonitor"
    /\ Answered("/health", 200,
                [status |-> IF model # None THEN "healthy" ELSE "unhealthy",
                 model_loaded |-> model # None,
                 scaler_loaded |-> scaler # None,
                 uptime_seconds |-> Uptime(now),
                 total_predictions |-> prediction_count])

\* GET /metrics of api/main.py returns monitor.get_metrics() as it is
api_get_metrics ==
    /\ monitor = "PredictionMonitor"
    /\ Answered("/metrics", 200, PredictionMonitor_metrics(now))

\* GET /health of src/main.py: an exception of get_health_status or of a
\* subscript of its result is answered with 500
src_health_check ==
    /\ monitor = "ModelMonitor"
    /\ LET health == health_status(now)
           keys == {"status", "uptime_hours", "total_predictions", "warnings"}
       IN  IF IsRaise(health) \/ \E k \in keys : ~HasKey(health, k)
           THEN Answered("/health", 500, EmptyDict)
           ELSE Answered("/health", 200,
                         [status |-> health.status,
                          model_loaded |-> model # None,
                          uptime_hours |-> health.uptime_hours,
                          total_predictions |-> health.total_predictions,
                          warnings |-> health.warnings])

\* GET /metrics of src/main.py: three fields are subscripted, three are read
\* with a default
src_get_metrics ==
    /\ monitor = "ModelMonitor"
    /\ LET metrics == ModelMonitor_metrics(now)
           keys == {"total_predictions", "avg_inference_time", "uptime_hours"}
           p95 == DictGet(metrics, "p95_inference_time", R(0))
           avg == DictGet(metrics, "avg_prediction", R(0))
           std == DictGet(metrics, "std_prediction", Root(R(0)))
       IN  IF \/ \E k \in keys : ~HasKey(metrics, k)
              \/ IsRaise(p95) \/ IsRaise(avg) \/ IsRaise(std)
           THEN Answered("/metrics", 500, EmptyDict)
           ELSE Answered("/metrics", 200,
                         [total_predictions |-> metrics.total_predictions,
                          avg_inference_time |-> metrics.avg_inference_time,
                          p95_inference_time |-> p95,
                          avg_prediction |-> avg,
                          std_prediction |-> std,
                          uptime_hours |-> metrics.uptime_hours])

\* features_dict of set_monitoring_baseline: for each known name, in order,
\* the values the feature window holds under it, when there are any
RECURSIVE WindowFeatures(_)
WindowFeatures(names) ==
    IF names = <<>> THEN <<>>
    ELSE LET values == ValuesOf(features_log, Head(names))
         IN  (IF values # <<>> THEN <<Item(Head(names), values)>> ELSE <<>>)
             \o WindowFeatures(Tail(names))

\* POST /monitoring/baseline of api/main.py
set_monitoring_baseline ==
    /\ monitor = "PredictionMonitor"
    /\ IF model = None THEN Answered("/monitoring/baseline", 503, EmptyDict)
       ELSE IF predictions = <<>> THEN Answered("/monitoring/baseline", 400, EmptyDict)
       ELSE LET features_dict == WindowFeatures(ALL_FEATURES_ORDERED)
            IN  /\ set_baseline(predictions,
                                IF features_dict # <<>> THEN Dict(features_dict)
                                ELSE None)
                /\ response' =
                       Answer("/monitoring/baseline", 200,
                              [baseline_predictions |-> Len(predictions),
                               baseline_mean |-> baseline_mean',
                               baseline_std |-> baseline_std',
                               features_tracked |-> Len(features_dict)])
                /\ UNCHANGED <<model, scaler, enable_monitoring, served>>

\* GET /monitoring/drift of api/main.py
api_detect_drift(threshold) ==
    /\ monitor = "PredictionMonitor"
    /\ IF model = None THEN Answered("/monitoring/drift", 503, EmptyDict)
       ELSE LET info == drift_info(threshold)
            IN  IF IsRaise(info) THEN Answered("/monitoring/drift", 500, EmptyDict)
                ELSE Answered("/monitoring/drift", 200,
                              Update(info, [threshold |-> threshold]))

\* what a load from disk meets: both artifacts readable, the files missing,
\* the model unreadable, or the model readable and the scaler or
\* preprocessor unreadable
LoadOutcomes == {"loaded", "missing", "model_unreadable", "scaler_unreadable"}

\* POST /admin/reload of api/main.py: load_production_model returns the
\* model, the scaler and the metadata together, and the globals are assigned
\* from its result; when it raises, none is assigned
api_reload_model(outcome) ==
    /\ monitor = "PredictionMonitor"
    /\ model' = IF outcome = "loaded" THEN Loaded("model", "v2") ELSE model
    /\ scaler' = IF outcome = "loaded" THEN Loaded("scaler", "v2") ELSE scaler
    /\ response' = Answer("/admin/reload", IF outcome = "loaded" THEN 200 ELSE 500,
                          EmptyDict)
    /\ MonitorUntouched
    /\ UNCHANGED <<enable_monitoring, served>>

\* load_model_artifacts of src/main.py assigns the global model, then the
\* global preprocessor to a new DataPreprocessor, then loads its state
model_after_load(outcome) ==
    IF outcome \in {"loaded", "scaler_unreadable"} THEN Loaded("model", "v2")
    ELSE model

preprocessor_after_load(outcome) ==
    IF outcome = "loaded" THEN Loaded("scaler", "v2")
    ELSE IF outcome = "scaler_unreadable" THEN Unfitted
    ELSE scaler

\* POST /admin/reload of src/main.py
src_reload_model(outcome) ==
    /\ monitor = "ModelMonitor"
    /\ model' = model_after_load(outcome)
    /\ scaler' = preprocessor_after_load(outcome)
    /\ response' = Answer("/admin/reload", IF outcome = "loaded" THEN 200 ELSE 500,
                          EmptyDict)
    /\ MonitorUntouched
    /\ UNCHANGED <<enable_monitoring, served>>

NextServing ==
    \/ \E in \in ServedInputs, computes \in BOOLEAN : api_predict(in, computes)
    \/ \E batch \in DictBatches, indexed \in BOOLEAN :
           api_predict_batch(batch, indexed)
    \/ \E in \in ServedInputs, computes \in BOOLEAN : src_predict(in, computes)
    \/ \E batch \in Batches : src_predict_batch(batch)
    \/ \E outcome \in LoadOutcomes : api_reload_model(outcome)
    \/ \E outcome \in LoadOutcomes : src_reload_model(outcome)
    \/ api_health_check
    \/ api_get_metrics
    \/ src_health_check
    \/ src_get_metrics
    \/ set_monitoring_baseline
    \/ \E threshold \in Thresholds : api_detect_drift(threshold)
    \/ Tick

SpecServing == InitServing /\ [][NextServing]_vars

\* --------------------------------------------------------- model registry
\* src/src/model_register.py against the MLflow model registry of one model.

\* mlflow.register_model: the next version, in stage None
register_model ==
    /\ registered < MaxVersions
    /\ registered' = registered + 1
    /\ transition' = None
    /\ UNCHANGED <<stage_of, alias>>
    /\ UNCHANGED <<monitor, max_history, start_time, now, pm_vars, inference_times,
                   baseline, mm_vars, logged, ret, last_metrics, baseline_given,
                   serving>>

valid_stages == {"Production", "Staging", "Archived", "None"}
\* the stage arguments: the three of the command line and one that is not valid
StageArgs == {"Production", "Staging", "Archived", "Prod"}
\* the registry calls of transition_model_stage; each call of a run can fail
RegistryCalls == {"get_latest_versions", "archive", "transition", "alias"}

\* stage.lower()
Lower(stage) ==
    CASE stage = "Production" -> "production"
      [] stage = "Staging" -> "staging"
      [] stage = "Archived" -> "archived"

\* client.get_latest_versions(model_name, stages=[stage]): the latest version
\* in the stage, if any
get_latest_versions(stage) ==
    LET in_stage == {v \in 1..registered : stage_of[v] = stage}
    IN  IF in_stage = {} THEN {}
        ELSE {CHOOSE v \in in_stage : \A w \in in_stage : w <= v}

\* the stages after the archiving block: an exception of get_latest_versions
\* or of an archiving call is logged and swallowed
after_archiving(stage, archive_existing, down) ==
    IF archive_existing /\ stage \in {"Production", "Staging"}
       /\ "get_latest_versions" \notin down /\ "archive" \notin down
    THEN [v \in Versions |->
             IF v \in get_latest_versions(stage) THEN "Archived" ELSE stage_of[v]]
    ELSE stage_of

\* the call and its outcome
Transitioned(version, stage, archive_existing, failed, raised) ==
    [version |-> version, stage |-> stage, archive_existing |-> archive_existing,
     failed |-> failed, raised |-> raised]

\* transition_model_stage(client, model_name, version, stage, archive_existing),
\* with the registry calls in down failing
transition_model_stage(version, stage, archive_existing, down) ==
    /\ registered > 0
    /\ IF stage \notin valid_stages
       THEN /\ transition' = Transitioned(version, stage, archive_existing, FALSE, TRUE)
            /\ UNCHANGED <<stage_of, alias>>
       ELSE LET archived == after_archiving(stage, archive_existing, down)
            IN  IF "transition" \notin down
                THEN /\ stage_of' = [archived EXCEPT ![version] = stage]
                     /\ transition' = Transitioned(version, stage, archive_existing,
                                                   FALSE, FALSE)
                     /\ UNCHANGED alias
                ELSE /\ stage_of' = archived
                     /\ alias' = IF "alias" \notin down
                                 THEN [alias EXCEPT ![Lower(stage)] = version]
                                 ELSE alias
                     /\ transition' = Transitioned(version, stage, archive_existing,
                                                   TRUE, "alias" \in down)
    /\ UNCHANGED registered
    /\ UNCHANGED <<monitor, max_history, start_time, now, pm_vars, inference_times,
                   baseline, mm_vars, logged, ret, last_metrics, baseline_given,
                   serving>>

NextRegistry ==
    \/ register_model
    \/ \E version \in 1..registered, stage \in StageArgs, archive_existing \in BOOLEAN,
          down \in SUBSET RegistryCalls :
           transition_model_stage(version, stage, archive_existing, down)

\* the registration script runs apart from any monitor or serving module
InitRegistry ==
    /\ monitor = "PredictionMonitor"
    /\ max_history = DefaultHistory
    /\ Fresh
    /\ NotStarted
    /\ Unregistered

SpecRegistry == InitRegistry /\ [][NextRegistry]_vars

\* ----------------------------------------------------------------- claims
\* what the claims read off the history of log_prediction calls
Calls == Len(logged)
Kept == IF Calls < max_history THEN Calls ELSE max_history
\* the given field of the last Kept calls, in the order of the calls
LoggedWindow(field) == [i \in 1..Kept |-> logged[Calls - Kept + i][field]]
LoggedMean(field) == RatDiv(SumSeq(LoggedWindow(field)), R(Kept))
Square(x) == RatMul(x, x)
Range(seq) == {seq[i] : i \in 1..Len(seq)}
IsMapping(v) == v # None /\ \A k \in DOMAIN v : k \in STRING
Reads ==
    {"get_metrics", "get_detailed_stats", "detect_drift", "get_feature_stats",
     "get_health_status"}
\* the keys of get_metrics computed from the clock
UptimeKeys == {"uptime_seconds", "uptime_hours", "predictions_per_hour"}
DriftReturned ==
    monitor = "PredictionMonitor" /\ ret.op = "detect_drift" /\ ret.exc = ""

\* C1: after N log_prediction calls on a monitor of capacity C, the prediction
\* window and the inference-time window hold exactly the last min(N, C) logged
\* values, in the order they were logged.
C1_WindowsHoldLastLogged ==
    /\ inference_times = LoggedWindow("inference_time")
    /\ monitor = "PredictionMonitor" => predictions = LoggedWindow("prediction")
    /\ monitor = "ModelMonitor" =>
           /\ Len(predictions_history) = Kept
           /\ \A i \in 1..Kept :
                  predictions_history[i].prediction = LoggedWindow("prediction")[i]

C1_Evicted ==
    /\ Calls > max_history
    /\ max_history = 2
    /\ Len(predictions) = 2
    /\ predictions[1] # predictions[2]
    /\ ret.op = "log_prediction"

\* C2: the total_predictions that get_metrics reports is the number of
\* log_prediction calls made since construction.
C2_TotalCountsEveryCall ==
    (ret.op = "get_metrics" /\ ret.exc = "") => ret.val.total_predictions = Calls

\* C3: the stored baseline changes only in a set_baseline step: no
\* log_prediction call, no read and no passing of time changes it.
C3_BaselineChangedOnlyBySetBaseline ==
    [][baseline' # baseline => BaselineStep]_vars

C3_LoggedAfterBaseline ==
    /\ baseline_mean # None
    /\ baseline_features # None
    /\ ret.op = "log_prediction"

\* C4: with a baseline of positive standard deviation and a non-empty window,
\* detect_drift(threshold) reports the score |mean(window) - baseline_mean| /
\* baseline_std, and reports drift exactly when the score is strictly above
\* the threshold.
C4_DriftScoreAndStrictThreshold ==
    (/\ monitor = "PredictionMonitor"
     /\ ret.op = "detect_drift"
     /\ baseline_mean # None
     /\ baseline_std.sq # R(0)
     /\ Kept > 0)
    => /\ ret.exc = ""
       /\ ret.val.drift_score # None
       /\ RatMul(ret.val.drift_score.sq, baseline_std.sq)
             = Square(RatSub(LoggedMean("prediction"), baseline_mean))
       /\ ret.val.drift_detected
             = (\/ RatLess(ret.arg, R(0))
                \/ RatLess(Square(ret.arg), ret.val.drift_score.sq))

C4_ScoreEqualsThreshold ==
    /\ DriftReturned
    /\ ret.val.drift_score # None
    /\ ret.val.drift_score.sq = Square(ret.arg)
    /\ ret.val.drift_detected = FALSE

\* C5: with a baseline standard deviation of 0, detect_drift does not raise,
\* reports no drift score and reports no drift, whatever the window and the
\* threshold.
C5_ZeroStdGivesNoScore ==
    (/\ monitor = "PredictionMonitor"
     /\ ret.op = "detect_drift"
     /\ baseline_std # None
     /\ baseline_std.sq = R(0))
    => /\ ret.exc = ""
       /\ ret.val.drift_score = None
       /\ ret.val.drift_detected = FALSE

C5_ZeroStdWindowAway ==
    /\ DriftReturned
    /\ baseline_std # None
    /\ baseline_std.sq = R(0)
    /\ ret.val.current_mean # None
    /\ ret.val.current_mean # baseline_mean

C7_EqualMeansScoreZero ==
    (/\ DriftReturned
     /\ baseline_mean # None
     /\ Kept > 0
     /\ LoggedMean("prediction") = baseline_mean)
    => /\ ret.val.drift_score = Root(R(0))
       /\ ret.val.drift_detected = FALSE

\* C7 as amended: when the mean of the window equals baseline_mean,
\* detect_drift reports no drift for a positive threshold; the score is 0
\* when baseline_std > 0 and null when baseline_std = 0.
C7_EqualMeansNoDrift ==
    (/\ DriftReturned
     /\ baseline_mean # None
     /\ Kept > 0
     /\ LoggedMean("prediction") = baseline_mean)
    => /\ ret.val.drift_detected = FALSE
       /\ ret.val.drift_score =
              IF baseline_std.sq = R(0) THEN None ELSE Root(R(0))

C7_EqualMeansPositiveStd ==
    /\ DriftReturned
    /\ baseline_mean # None
    /\ baseline_std.sq # R(0)
    /\ Kept = 2
    /\ LoggedMean("prediction") = baseline_mean

\* C8: every read, at any point of the monitor's life, returns a mapping and
\* raises nothing.
C8_ReadsReturnMappings ==
    ret.op \in Reads => (ret.exc = "" /\ IsMapping(ret.val))

C8_HealthReadAfterLogs ==
    /\ ret.op = "get_health_status"
    /\ ret.exc = ""
    /\ Kept > 0

\* C9: get_health_status reports a status among healthy, warning and
\* degraded; healthy exactly when no warning is listed; both warnings when
\* both heuristics fire; and healthy, no warning and 0 predictions on a fresh
\* monitor.
C9_HealthStatus ==
    (ret.op = "get_health_status")
    => LET latency ==
               Kept > 0 /\ RatLess(R(1), np_percentile(LoggedWindow("inference_time"), 95))
           stuck ==
               Kept > 0 /\ RootLess(np_std(LoggedWindow("prediction")), Rat(1, 100))
       IN  /\ ret.exc = ""
           /\ ret.val.status \in {"healthy", "warning", "degraded"}
           /\ (ret.val.status = "healthy") = (ret.val.warnings = <<>>)
           /\ (latency /\ stuck) =>
                  {HighLatency, LowVariance} \subseteq Range(ret.val.warnings)
           /\ Calls = 0 =>
                  /\ ret.val.status = "healthy"
                  /\ ret.val.warnings = <<>>
                  /\ ret.val.total_predictions = 0

C9_BothWarnings ==
    /\ ret.op = "get_health_status"
    /\ ret.exc = ""
    /\ Len(ret.val.warnings) = 2

PredictionKeys ==
    {"avg_prediction", "std_prediction", "min_prediction", "max_prediction",
     "median_prediction"}
InferenceKeys ==
    {"avg_inference_time_ms", "p50_inference_time_ms", "p95_inference_time_ms",
     "p99_inference_time_ms", "max_inference_time_ms"}
CounterKeys ==
    {"total_predictions", "uptime_seconds", "uptime_hours", "predictions_per_hour"}
PredictionMonitorMetricsReturned ==
    monitor = "PredictionMonitor" /\ ret.op = "get_metrics"

\* C11: PredictionMonitor.get_metrics never raises and always reports the
\* four counters, with predictions_per_hour 0 at uptime 0; the prediction
\* statistics are all present when the prediction window is non-empty and all
\* absent when it is empty, and likewise the inference-time statistics.
C11_CountersAlwaysStatsOnlyWithData ==
    PredictionMonitorMetricsReturned
    => /\ ret.exc = ""
       /\ CounterKeys \subseteq DOMAIN ret.val
       /\ ret.val.uptime_seconds = R(0) => ret.val.predictions_per_hour = R(0)
       /\ RatLess(R(0), ret.val.uptime_seconds) =>
              ret.val.predictions_per_hour
                  = RatDiv(R(Calls), RatDiv(ret.val.uptime_seconds, R(3600)))
       /\ IF Len(LoggedWindow("prediction")) > 0
          THEN PredictionKeys \subseteq DOMAIN ret.val
          ELSE PredictionKeys \cap DOMAIN ret.val = {}
       /\ IF Len(LoggedWindow("inference_time")) > 0
          THEN InferenceKeys \subseteq DOMAIN ret.val
          ELSE InferenceKeys \cap DOMAIN ret.val = {}

C11_FreshAtUptimeZero ==
    /\ PredictionMonitorMetricsReturned
    /\ ret.exc = ""
    /\ ret.val.uptime_seconds = R(0)
    /\ Calls = 0
    /\ DOMAIN ret.val = CounterKeys

DetailedStatsReturned ==
    monitor = "PredictionMonitor" /\ ret.op = "get_detailed_stats"
\* the recent predictions a get_detailed_stats result shows: none when the
\* key is absent
RecentReported(stats) ==
    IF HasKey(stats, "recent_predictions") THEN stats.recent_predictions ELSE <<>>

\* C12: get_detailed_stats shows as recent the last min(10, window length)
\* logged predictions in the order they were logged; last_prediction_time is
\* present exactly when a prediction has been logged and is then the
\* timestamp of the latest log_prediction call.
C12_RecentAndLastPredictionTime ==
    DetailedStatsReturned
    => LET W == LoggedWindow("prediction")
           n == IF Len(W) < RecentShown THEN Len(W) ELSE RecentShown
       IN  /\ ret.exc = ""
           /\ RecentReported(ret.val) = [i \in 1..n |-> W[Len(W) - n + i]]
           /\ HasKey(ret.val, "last_prediction_time") <=> Calls > 0
           /\ Calls > 0 => ret.val.last_prediction_time = logged[Calls].timestamp

C12_WindowLongerThanRecent ==
    /\ DetailedStatsReturned
    /\ ret.exc = ""
    /\ Len(predictions) > RecentShown
    /\ Len(ret.val.recent_predictions) = RecentShown
    /\ predictions[1] # predictions[2]
    /\ logged[1].timestamp # logged[Calls].timestamp
    /\ ret.val.last_prediction_time = logged[Calls].timestamp

\* a set_baseline step whose predictions are not empty
ConfiguringStep ==
    \E in \in BaselineInputs :
        in.predictions # <<>> /\ set_baseline(in.predictions, in.features)

\* C13: the monitor starts with no baseline; the baseline becomes configured
\* in a set_baseline step with non-empty predictions and in no other step;
\* once configured it stays configured in every later state, further
\* set_baseline steps included; and detect_drift reports baseline_configured
\* accordingly.
C13_BaselineLifecycleOneWay ==
    /\ baseline_mean = None
    /\ [][/\ baseline_mean # None => baseline_mean' # None
          /\ (baseline_mean = None /\ baseline_mean' # None) => ConfiguringStep
          /\ ConfiguringStep => baseline_mean' # None]_vars
    /\ [](baseline_given <=> baseline_mean # None)
    /\ [](DriftReturned => ret.val.baseline_configured = baseline_given)

C13_ConfiguredTwice ==
    /\ ret.op = "set_baseline"
    /\ ret.arg.features = None
    /\ ret.arg.predictions # <<>>
    /\ baseline_mean = np_mean(ret.arg.predictions)
    /\ baseline_features # None
    /\ baseline_features # EmptyDict

\* the feature names logged so far
LoggedNames == UNION {DOMAIN logged[i].features : i \in 1..Calls}
\* the values the monitor retains for the feature name k
Retained(k) ==
    IF monitor = "PredictionMonitor" THEN ValuesOf(features_log, k)
    ELSE IF \E i \in 1..Len(feature_stats) : feature_stats[i].name = k
         THEN (CHOOSE e \in Range(feature_stats) : e.name = k).values
         ELSE <<>>

\* C14: for every feature name, the monitor retains at most max_history
\* values, after any number of log_prediction calls.
C14_FeatureValuesWithinCapacity ==
    \A k \in LoggedNames : Len(Retained(k)) <= max_history

\* the values logged under the feature name k by all calls, in order
LoggedUnder(k) == ValuesOf([i \in 1..Calls |-> logged[i].features], k)
\* the statistics get_feature_stats computes from the values v
Aggregates(v) ==
    [mean |-> np_mean(v), std |-> np_std(v), min |-> np_min(v), max |-> np_max(v),
     median |-> np_median(v)]
FeatureStatsReturned ==
    monitor = "PredictionMonitor" /\ ret.op = "get_feature_stats" /\ ret.exc = ""

\* C15: for every feature name f, get_feature_stats aggregates exactly the
\* last min(k, C) values logged under f, k being the number of calls whose
\* feature map contained f and C the capacity, whatever feature names the
\* other calls carried.
C15_PerFeatureRollingStore ==
    FeatureStatsReturned
    => \A f \in LoggedNames :
           LET v == LastK(LoggedUnder(f), max_history)
           IN  /\ HasKey(ret.val, f)
               /\ \A key \in DOMAIN Aggregates(v) : ret.val[f][key] = Aggregates(v)[key]

SetBaselineReturned == monitor = "PredictionMonitor" /\ ret.op = "set_baseline"
\* the feature names with a stored baseline entry
BaselineNames ==
    IF baseline_features = None THEN {} ELSE DOMAIN baseline_features
\* the items of the features argument F of set_baseline, none when omitted
ItemsOf(F) == IF F = None THEN <<>> ELSE F.items
\* the baseline entry set_baseline computes from the values v
BaselineEntry(v) ==
    [mean |-> np_mean(v), std |-> np_std(v), min |-> np_min(v), max |-> np_max(v)]

\* C16: after a set_baseline(P, F) call that returns, the stored baseline
\* holds only statistics of P and F: the prediction baseline is that of a
\* non-empty P, and every feature entry is computed from an item of F, so
\* that no entry of an earlier call remains, also when F is omitted.
C16_BaselineOnlyFromArguments ==
    (SetBaselineReturned /\ ret.exc = "")
    => /\ ret.arg.predictions # <<>> =>
              /\ baseline_mean = np_mean(ret.arg.predictions)
              /\ baseline_std = np_std(ret.arg.predictions)
       /\ \A k \in BaselineNames :
              \E e \in Range(ItemsOf(ret.arg.features)) :
                  e.name = k /\ baseline_features[k] = BaselineEntry(e.values)

\* C17: a set_baseline step with empty predictions does not raise and leaves
\* baseline_mean and baseline_std as they were.
C17_EmptyPredictionsNoRaiseNoChange ==
    [][\A in \in BaselineInputs :
           (in.predictions = <<>> /\ set_baseline(in.predictions, in.features))
           => /\ ret'.exc = ""
              /\ UNCHANGED <<baseline_mean, baseline_std>>]_vars

\* C18: a set_baseline call with a feature entry of no values does not
\* raise, stores no baseline entry for that feature and stores the entries
\* of the other features of the call.
C18_EmptyFeatureEntrySkipped ==
    (/\ SetBaselineReturned
     /\ \E e \in Range(ItemsOf(ret.arg.features)) : e.values = <<>>)
    => /\ ret.exc = ""
       /\ \A e \in Range(ItemsOf(ret.arg.features)) :
              IF e.values = <<>> THEN e.name \notin BaselineNames
              ELSE /\ e.name \in BaselineNames
                   /\ baseline_features[e.name] = BaselineEntry(e.values)

\* C19: in the result of get_feature_stats, the entry of a feature has
\* drift_score and drift_detected exactly when a baseline entry is stored for
\* that feature name, and only its aggregates otherwise.
C19_DriftFieldsIffBaselineEntry ==
    FeatureStatsReturned
    => \A f \in DOMAIN ret.val :
           IF f \in BaselineNames
           THEN {"drift_score", "drift_detected"} \subseteq DOMAIN ret.val[f]
           ELSE DOMAIN ret.val[f] = DOMAIN Aggregates(<<R(0)>>)

C21_ReadsChangeNothing ==
    [][ret'.op \in Reads =>
           UNCHANGED <<pm_vars, inference_times, baseline, mm_vars>>]_vars

C21_ReadOfFilledMonitor ==
    /\ ret.op = "get_feature_stats"
    /\ ret.exc = ""
    /\ Calls = MaxLogs
    /\ baseline_mean # None
    /\ baseline_features # None

\* C22: GET /health and GET /metrics answer 200 in every state of the service,
\* /health with status and model_loaded, /metrics with total_predictions and
\* uptime_hours.
C22_HealthAndMetricsAlwaysAnswer ==
    HasKey(response, "path") /\ response.path \in {"/health", "/metrics"} =>
        /\ response.status = 200
        /\ response.path = "/health" =>
               HasKey(response.body, "status") /\ HasKey(response.body, "model_loaded")
        /\ response.path = "/metrics" =>
               /\ HasKey(response.body, "total_predictions")
               /\ HasKey(response.body, "uptime_hours")

C22_MetricsOfIdleServiceWithoutModel ==
    /\ HasKey(response, "path")
    /\ response.path = "/metrics"
    /\ response.status = 200
    /\ monitor = "ModelMonitor"
    /\ model = None
    /\ Calls = 0

BaselineAnswer(status) ==
    /\ HasKey(response', "path")
    /\ response'.path = "/monitoring/baseline"
    /\ response'.status = status
    /\ ret'.op = "set_baseline" \/ status # 200

\* the baseline of every name the feature window holds
WindowBaseline ==
    LET names == UNION {DOMAIN features_log[i] : i \in 1..Len(features_log)}
        stats(k) == LET values == ValuesOf(features_log, k)
                    IN  [mean |-> np_mean(values), std |-> np_std(values),
                         min |-> np_min(values), max |-> np_max(values)]
    IN  [k \in names |-> stats(k)]

\* C23 (first half): POST /monitoring/baseline answers 200 exactly with a
\* model loaded and a non-empty prediction window, and leaves the baseline
\* as it was when it answers 503 or 400.
C23_BaselineSetIffModelAndWindow ==
    [][(HasKey(response', "path") /\ response'.path = "/monitoring/baseline"
        /\ response' # response) =>
           /\ response'.status = 200 <=> (model # None /\ predictions # <<>>)
           /\ response'.status # 200 =>
                  response'.status \in {503, 400} /\ UNCHANGED baseline]_vars

\* C23 (consequence): with the baseline set by POST /monitoring/baseline and
\* no prediction logged since, detect_drift reports the baseline mean as the
\* current mean and no drift, for every threshold.
C23_NoDriftRightAfterBaseline ==
    ret.op = "set_baseline" /\ ret.exc = "" =>
        \A threshold \in Thresholds :
            /\ drift_info(threshold).current_mean = baseline_mean
            /\ ~drift_info(threshold).drift_detected

\* C23: a POST /monitoring/baseline answered 200 computes the baseline from
\* exactly the current windows: the prediction baseline from the prediction
\* window and a feature baseline for every name in the feature window.
C23_BaselineIsSnapshotOfWindows ==
    [][BaselineAnswer(200) /\ response' # response =>
           /\ baseline_mean' = np_mean(predictions)
           /\ baseline_std' = np_std(predictions)
           /\ baseline_features' # None
           /\ baseline_features' = WindowBaseline]_vars

\* the step is a transition_model_stage call that returned
TransitionReturned ==
    /\ HasKey(transition', "version")
    /\ ~transition'.raised

\* C28: when transition_model_stage returns with archive_existing and a stage
\* of Production or Staging, the given version is the only version in that
\* stage and every other version that was in it is Archived.
C28_OnlyVersionInStage ==
    [][(/\ TransitionReturned
        /\ transition'.archive_existing
        /\ transition'.stage \in {"Production", "Staging"}) =>
           /\ {v \in 1..registered : stage_of'[v] = transition'.stage}
                  = {transition'.version}
           /\ \A v \in 1..registered \ {transition'.version} :
                  stage_of[v] = transition'.stage => stage_of'[v] = "Archived"]_vars

\* C29: when transition_model_stage returns, the given version is in the
\* requested stage; when its stage transition call fails it raises, and the
\* versions that were in the requested stage are still in it.
C29_ReturnsOnlyWhenTransitioned ==
    [][HasKey(transition', "version") =>
           /\ ~transition'.raised =>
                  stage_of'[transition'.version] = transition'.stage
           /\ transition'.failed =>
                  /\ transition'.raised
                  /\ \A v \in 1..registered :
                         stage_of[v] = transition'.stage =>
                             stage_of'[v] = transition'.stage]_vars

RatLeq(a, b) == ~RatLess(b, a)
\* the inference-time figures of the get_metrics result v, under the names of
\* either class; ModelMonitor reports no maximum
InferenceFigures(v) ==
    IF monitor = "PredictionMonitor"
    THEN [avg |-> v.avg_inference_time_ms, p50 |-> v.p50_inference_time_ms,
          p95 |-> v.p95_inference_time_ms, p99 |-> v.p99_inference_time_ms,
          max |-> v.max_inference_time_ms]
    ELSE [avg |-> v.avg_inference_time, p50 |-> v.p50_inference_time,
          p95 |-> v.p95_inference_time, p99 |-> v.p99_inference_time,
          max |-> np_max(inference_times)]

C25_HistoriesAligned ==
    monitor = "PredictionMonitor" =>
        LET n == IF prediction_count < max_history THEN prediction_count
                 ELSE max_history
        IN  /\ Len(predictions) = n
            /\ Len(inference_times) = n
            /\ Len(features_log) = n
            /\ Len(timestamps) = n
            /\ n <= Calls
            /\ \A i \in 1..n :
                   LET call == logged[Calls - n + i]
                   IN  /\ predictions[i] = call.prediction
                       /\ inference_times[i] = call.inference_time
                       /\ features_log[i] = call.features
                       /\ timestamps[i] = call.timestamp

C25_DistinctCallsAfterEviction ==
    /\ monitor = "PredictionMonitor"
    /\ prediction_count > max_history
    /\ Len(predictions) = MaxCap
    /\ predictions[1] # predictions[MaxCap]
    /\ inference_times[1] # inference_times[MaxCap]
    /\ features_log[1] # features_log[MaxCap]
    /\ timestamps[1] # timestamps[MaxCap]

\* C26: when get_health_status lists the high-latency warning, the status it
\* reports is degraded, also when the low-variance warning is listed with it.
C26_HighLatencyIsDegraded ==
    (/\ ret.op = "get_health_status"
     /\ ret.exc = ""
     /\ HighLatency \in Range(ret.val.warnings)) => ret.val.status = "degraded"

\* the values of feature k in the window of the last max_history calls
WindowValues(k) == ValuesOf(LoggedWindow("features"), k)
\* the mean of feature k over the window is more than two baseline standard
\* deviations away from its baseline mean in b
ShiftedInWindow(b, k) ==
    /\ WindowValues(k) # <<>>
    /\ RatLess(RatMul(R(2), b[k].std),
               RatAbs(RatSub(np_mean(WindowValues(k)), b[k].mean)))

\* C30: ModelMonitor.detect_drift(baseline_stats) reports drift exactly when
\* features_drifted is not empty, which is exactly when some feature with a
\* baseline entry has a mean over the current window more than two baseline
\* standard deviations away from the baseline mean; with no baseline_stats
\* or a baseline standard deviation of 0 it reports no drift.
C30_FeatureDriftOverWindow ==
    (monitor = "ModelMonitor" /\ ret.op = "detect_drift" /\ ret.exc = "") =>
        LET b == ret.arg
            drifted == IF HasKey(ret.val, "features_drifted")
                       THEN ret.val.features_drifted ELSE <<>>
            names == IF b = None THEN {} ELSE DOMAIN b
        IN  /\ ret.val.drift_detected <=> drifted # <<>>
            /\ drifted # <<>> <=> \E k \in names : ShiftedInWindow(b, k)
            /\ (b = None \/ \A k \in names : b[k].std = R(0)) =>
                   ~ret.val.drift_detected

\* C30 without the zero standard deviation and before any eviction: the
\* part of the statement the code satisfies.
C30_FeatureDriftBeforeEviction ==
    (/\ monitor = "ModelMonitor" /\ ret.op = "detect_drift" /\ ret.exc = ""
     /\ Calls <= max_history) =>
        LET b == ret.arg
            drifted == IF HasKey(ret.val, "features_drifted")
                       THEN ret.val.features_drifted ELSE <<>>
            names == IF b = None THEN {} ELSE DOMAIN b
        IN  /\ ret.val.drift_detected <=> drifted # <<>>
            /\ drifted # <<>> <=> \E k \in names : ShiftedInWindow(b, k)
            /\ b = None => ~ret.val.drift_detected
====
